---- MODULE Spec2Model ----
(***************************************************************************)
(* Model of src/modules/mobile/main.cpp: the `mobile` command of the       *)
(* firmware (start / stop / status / mode / at / firmware-version), the    *)
(* background daemon task it spawns, and the helper functions open_serial, *)
(* exec_all_AT, parse_uint, version_firmware_parse,                        *)
(* version_firmware_compare_le and version_firmware_check.                 *)
(*                                                                         *)
(* Strings are sequences of one-character strings; the end of a sequence   *)
(* is the terminating NUL of the C string.  A unique_file is modelled by   *)
(* its descriptor: -1 when closed, a non-negative number when open.        *)
(***************************************************************************)
EXTENDS Integers, Sequences, FiniteSets, TLC

\* ------------------------------------------------------------------ bounds
\* background task slots: at most MaxTasks daemon tasks are alive at once
MaxTasks == 2
\* an `at` command line carries 1..MaxArgc AT commands
MaxArgc == 2
\* version components of the comparison inputs range over 0..MaxComp
MaxComp == 2
\* errno values range over 0..MaxErrno
MaxErrno == 2
\* version texts given to version_firmware_parse have at most MaxLen characters
MaxLen == 8

VARIABLES
    daemon_should_run,  \* main.cpp:28
    daemon_running,     \* main.cpp:29
    task,               \* the background daemon tasks: slot -> [pc, d]
    fg,                 \* the foreground command (one invocation of main)
    call                \* one call of a pure helper: [fn, args, ret]

vars == <<daemon_should_run, daemon_running, task, fg, call>>

\* ------------------------------------------------------- unique_file, fds
\* fileno(unique_file): the descriptor the handle owns, -1 when closed
fileno(d) == d

\* close(unique_file &) and ~unique_file: the handle gives up its descriptor;
\* closing a closed handle is harmless
close(d) == -1

\* ------------------------------------------------------------ open_serial
Errnos == 0 .. MaxErrno

\* the step of open_serial that fails, if any
OpenFailures == {"none", "tty_open", "tty_set_speed", "tty_use_ctsrts"}

\* what the environment does to errno during one open_serial call
ErrnoEnv == [errno0 : Errnos, e_fail : Errnos, e_perror : Errnos, e_close : Errnos]

\* open_serial without line 44: errno is left as close() wrote it
open_serial_norestore(fail, fd, e) ==
    LET d1     == IF fail = "tty_open" THEN -1 ELSE fd
        ok     == fileno(d1) # -1 /\ fail # "tty_set_speed" /\ fail # "tty_use_ctsrts"
    IN  IF ~ok THEN [d |-> close(d1), errno |-> e.e_close]
        ELSE [d |-> d1, errno |-> e.errno0]

\* open_serial(name): `fail` is the step the environment makes fail, `fd` the
\* descriptor tty_open hands out, `e` the values written to errno on the way.
\* Returns the handle and the value of errno on return.
open_serial(fail, fd, e) ==
    LET d1     == IF fail = "tty_open" THEN -1 ELSE fd                   \* line 34
        errno1 == IF fail = "tty_open" THEN e.e_fail ELSE e.errno0
        ok1    == fileno(d1) # -1                                        \* line 35
        ok2    == ok1 /\ fail # "tty_set_speed"                          \* line 36
        errno2 == IF ok1 /\ ~ok2 THEN e.e_fail ELSE errno1
        ok3    == ok2 /\ fail # "tty_use_ctsrts"                         \* line 37
        errno3 == IF ok2 /\ ~ok3 THEN e.e_fail ELSE errno2
        ok     == ok3
    IN  IF ~ok                                                           \* line 39
        THEN LET true_errno == errno3                                    \* line 41
                 errno4     == e.e_perror                                \* line 42
                 d2         == close(d1)                                 \* line 43
                 errno5     == e.e_close
                 errno6     == true_errno                                \* line 44
             IN  [d |-> d2, errno |-> errno6]
        ELSE [d |-> d1, errno |-> errno3]       \* line 46

\* ------------------------------------------------- C string helper functions
\* the characters version texts are made of
Alphabet == {"0", "8", "x", ".", "\r", "\n"}

\* digits of strtoul, by value + 1
DigitChars == <<"0", "1", "2", "3", "4", "5", "6", "7", "8", "9",
                "a", "b", "c", "d", "e", "f">>

\* value of character c as a digit, -1 when it is none
DigitValue(c) ==
    IF \E k \in 1 .. Len(DigitChars) : DigitChars[k] = c
    THEN (CHOOSE k \in 1 .. Len(DigitChars) : DigitChars[k] = c) - 1
    ELSE -1

IsDigit(c, base) == DigitValue(c) # -1 /\ DigitValue(c) < base

\* s without its first k characters
Drop(s, k) == SubSeq(s, k + 1, Len(s))

\* strspn(s, S): length of the longest prefix of s made of characters of S
RECURSIVE strspn(_, _)
strspn(s, S) ==
    IF s # <<>> /\ s[1] \in S THEN 1 + strspn(Tail(s), S) ELSE 0

\* strcspn(s, S): length of the longest prefix of s with no character of S
RECURSIVE strcspn(_, _)
strcspn(s, S) ==
    IF s # <<>> /\ s[1] \notin S THEN 1 + strcspn(Tail(s), S) ELSE 0

\* strtok_r(s, sep, &tail): skips leading separators; NULL (found = FALSE) at
\* the end of the string; otherwise the token up to the next separator, and
\* the text after that separator as the saved position
strtok_r(s, sep) ==
    LET s1 == Drop(s, strspn(s, sep))
        b  == strcspn(s1, sep)
    IN  IF s1 = <<>>
        THEN [found |-> FALSE, tok |-> <<>>, rest |-> <<>>]
        ELSE [found |-> TRUE, tok |-> SubSeq(s1, 1, b), rest |-> Drop(s1, b + 1)]

\* number of leading characters of s that are digits of the base
RECURSIVE DigitRun(_, _)
DigitRun(s, base) ==
    IF s # <<>> /\ IsDigit(s[1], base) THEN 1 + DigitRun(Tail(s), base) ELSE 0

\* value of the digit string s in the base, on top of acc
RECURSIVE Accumulate(_, _, _)
Accumulate(s, base, acc) ==
    IF s = <<>> THEN acc
    ELSE Accumulate(Tail(s), base, acc * base + DigitValue(s[1]))

\* strtoul(s, &p, 0) on texts over Alphabet (no white space, no sign; values
\* of texts of at most MaxLen + 1 characters stay below 2^31, so ULONG_MAX
\* saturation is never reached).  Base 0: a "0x" prefix followed by a hex
\* digit selects base 16, another leading "0" base 8, anything else base 10.
\* consumed is p - s; with no digits nothing is converted and p = s.
strtoul(s) ==
    LET hex  == Len(s) >= 3 /\ s[1] = "0" /\ s[2] = "x" /\ IsDigit(s[3], 16)
        base == IF hex THEN 16 ELSE IF s # <<>> /\ s[1] = "0" THEN 8 ELSE 10
        skip == IF hex THEN 2 ELSE 0
        nd   == DigitRun(Drop(s, skip), base)
    IN  IF nd = 0
        THEN [n |-> 0, consumed |-> 0]
        ELSE [n |-> Accumulate(SubSeq(s, skip + 1, skip + nd), base, 0),
              consumed |-> skip + nd]

\* ---------------------------------------------------------------- parse_uint
\* parse_uint(s, n, tail), lines 119-126: ok is tail != s
parse_uint_tail(s) ==
    LET r == strtoul(s)                                                  \* line 123
    IN  [ok |-> r.consumed # 0, n |-> r.n, tail |-> Drop(s, r.consumed)] \* 124-125

\* parse_uint(s, n), lines 128-135: the whole of s must be the number
parse_uint(s) ==
    LET r == parse_uint_tail(s)                                          \* line 132
    IN  [ok |-> r.ok /\ r.tail = <<>>, n |-> r.n]

\* ----------------------------------------------------- version_firmware_parse
Separators == {".", "\n", "\r"}                                          \* line 141

\* the loop of lines 145-153: rest is the saved strtok_r position, v the
\* components stored so far (v[1..i]; the others are not written)
RECURSIVE version_firmware_parse_loop(_, _)
version_firmware_parse_loop(rest, v) ==
    LET n == strtok_r(rest, Separators)                                  \* 144, 152
        p == parse_uint(n.tok)
    IN  IF ~n.found THEN [ok |-> FALSE, v |-> v]                         \* 145, 154
        ELSE IF ~p.ok THEN [ok |-> FALSE, v |-> v]                       \* line 147
        ELSE IF Len(v) + 1 = 4 THEN [ok |-> TRUE, v |-> Append(v, p.n)]  \* 149-150
        ELSE version_firmware_parse_loop(n.rest, Append(v, p.n))

version_firmware_parse(s) == version_firmware_parse_loop(s, <<>>)        \* 137-155

\* ------------------------------------------------ version_firmware_compare_le
\* the comparison with the build component compared strictly
version_firmware_compare_lt(min, ver) ==
    \/ min[1] < ver[1]
    \/ /\ min[1] = ver[1]
       /\ \/ min[2] < ver[2]
          \/ /\ min[2] = ver[2]
             /\ \/ min[3] < ver[3]
                \/ (min[3] = ver[3] /\ min[4] < ver[4])

\* lines 157-172
version_firmware_compare_le(min, ver) ==
    \/ min[1] < ver[1]
    \/ /\ min[1] = ver[1]
       /\ \/ min[2] < ver[2]
          \/ /\ min[2] = ver[2]
             /\ \/ min[3] < ver[3]
                \/ (min[3] = ver[3] /\ min[4] <= ver[4])

\* ------------------------------------------------------------ state shapes
TaskIds == 1 .. MaxTasks

\* a free task slot.  polls is instrumentation for a task that has not left
\* its loop: -1 when no stop was accepted during its life, otherwise 0 or 1,
\* whether it has since the last accepted stop read daemon_should_run as true
\* at line 70 and so begun a further process_one_command
NoTask == [pc |-> "none", d |-> -1, polls |-> -1]

\* the foreground between two commands (the shell prompt)
FgIdle ==
    [pc |-> "idle", cmd |-> "none", arg |-> "", argc |-> 0, i |-> 0,
     serial |-> -1, buf |-> <<>>, ok |-> FALSE, found |-> 0, v4 |-> <<>>,
     r |-> 0, ret |-> 0,
     \* instrumentation, not program state
     pre |-> <<FALSE, FALSE>>, checks |-> <<>>, op |-> FALSE, opened |-> FALSE,
     executed |-> <<>>, results |-> <<>>, stages |-> <<>>]

\* no helper call in progress
NoCall == [fn |-> "none"]

\* the daemon and the foreground at rest
AtRest ==
    /\ daemon_should_run = FALSE                                         \* line 28
    /\ daemon_running = FALSE                                            \* line 29
    /\ task = [t \in TaskIds |-> NoTask]
    /\ fg = FgIdle

\* ------------------------------------------- helper functions called alone
Components == 0 .. MaxComp

\* the text is any string over Alphabet of at most MaxLen characters
InitParse ==
    /\ AtRest
    /\ \E n \in 0 .. MaxLen : \E s \in [1 .. n -> Alphabet] :
          call = [fn |-> "version_firmware_parse", args |-> s, done |-> FALSE,
                  ret |-> [ok |-> FALSE, v |-> <<>>]]

CallParse ==
    /\ call.fn = "version_firmware_parse" /\ ~call.done
    /\ call' = [call EXCEPT !.done = TRUE, !.ret = version_firmware_parse(call.args)]
    /\ UNCHANGED <<daemon_should_run, daemon_running, task, fg>>

SpecParse == InitParse /\ [][CallParse]_vars

InitCompare ==
    /\ AtRest
    /\ call \in {[fn |-> "version_firmware_compare_le", min |-> m, ver |-> v,
                  done |-> FALSE, ret |-> FALSE] :
                    m \in [1 .. 4 -> Components], v \in [1 .. 4 -> Components]}

CallCompare ==
    /\ call.fn = "version_firmware_compare_le" /\ ~call.done
    /\ call' = [call EXCEPT !.done = TRUE,
                            !.ret = version_firmware_compare_le(call.min, call.ver)]
    /\ UNCHANGED <<daemon_should_run, daemon_running, task, fg>>

SpecCompare == InitCompare /\ [][CallCompare]_vars

InitOpen ==
    /\ AtRest
    /\ call \in {[fn |-> "open_serial", fail |-> f, fd |-> d, e |-> e, done |-> FALSE,
                  ret |-> [d |-> -1, errno |-> e.errno0]] :
                    f \in OpenFailures, d \in 0 .. MaxTasks, e \in ErrnoEnv}

CallOpen ==
    /\ call.fn = "open_serial" /\ ~call.done
    /\ call' = [call EXCEPT !.done = TRUE,
                            !.ret = open_serial(call.fail, call.fd, call.e)]
    /\ UNCHANGED <<daemon_should_run, daemon_running, task, fg>>

SpecOpen == InitOpen /\ [][CallOpen]_vars

\* ------------------------------------------------- the daemon and main()
Init == AtRest /\ call = NoCall

\* every task has its own descriptor table, holding stdin, stdout and stderr
StdFds == {0, 1, 2}

\* the descriptor a successful tty_open returns: the lowest one free in the
\* caller's table (no caller holds a second descriptor when it opens)
AllocFd == CHOOSE n \in 0 .. Cardinality(StdFds) :
               n \notin StdFds /\ \A m \in 0 .. n - 1 : m \in StdFds

\* the errno traffic of an open_serial call whose errno nobody reads
AnyErrno == CHOOSE e \in ErrnoEnv : TRUE

\* the task slots not in use
FreeSlots == {t \in TaskIds : task[t].pc = "none"}

\* maintenance_allowed answering from daemon_should_run instead
maintenance_allowed_should == ~daemon_should_run

\* maintenance_allowed(), lines 79-84
maintenance_allowed == ~daemon_running

\* what one call of maintenance_allowed saw and answered
CheckRecord(m) ==
    [running |-> daemon_running, should_run |-> daemon_should_run, allowed |-> m]

\* ---- the shell starts one command: main() is entered; pre remembers the
\* flags as they were when a start or stop was issued
ModeArgs == {"at", "default", "other"}

\* lines 238-242 and 311-315: an unknown or malformed command line
Usage ==
    /\ fg.pc = "idle"
    /\ fg' = [fg EXCEPT !.pc = "ret", !.cmd = "usage", !.ret = 1]
    /\ UNCHANGED <<daemon_should_run, daemon_running, task, call>>

Invoke ==
    /\ fg.pc = "idle"
    /\ \/ fg' = [fg EXCEPT !.pc = "start_check", !.cmd = "start",       \* line 244
                           !.pre = <<daemon_should_run, daemon_running>>]
       \/ fg' = [fg EXCEPT !.pc = "status_should", !.cmd = "status"]    \* line 266
       \/ fg' = [fg EXCEPT !.pc = "stop_check", !.cmd = "stop",         \* line 274
                           !.pre = <<daemon_should_run, daemon_running>>]
       \/ \E a \in ModeArgs :                                            \* line 283
            fg' = [fg EXCEPT !.pc = "mode_check", !.cmd = "mode", !.arg = a]
       \/ \E n \in 1 .. MaxArgc :                                        \* line 299
            fg' = [fg EXCEPT !.pc = "at_check", !.cmd = "at", !.argc = n]
       \/ fg' = [fg EXCEPT !.pc = "fw_check", !.cmd = "firmware-version"] \* line 305
    /\ UNCHANGED <<daemon_should_run, daemon_running, task, call>>

\* ---- start, lines 244-265
StartCheck ==                                                            \* 246-250
    /\ fg.pc = "start_check"
    /\ fg' = IF daemon_running
             THEN [fg EXCEPT !.pc = "ret", !.ret = 1]
             ELSE [fg EXCEPT !.pc = "start_set"]
    /\ UNCHANGED <<daemon_should_run, daemon_running, task, call>>

StartSet ==                                                              \* line 252
    /\ fg.pc = "start_set"
    /\ daemon_should_run' = TRUE
    /\ fg' = [fg EXCEPT !.pc = "start_spawn"]
    /\ UNCHANGED <<daemon_running, task, call>>

\* task_spawn_cmd, lines 254-264: the new task starts at daemon(); the call
\* fails when the system has no task slot left, and may fail otherwise
StartSpawn ==
    /\ fg.pc = "start_spawn"
    /\ \/ /\ FreeSlots # {}
          /\ LET t == CHOOSE x \in FreeSlots : \A y \in FreeSlots : x <= y
             IN  /\ task' = [task EXCEPT ![t] = [pc |-> "open", d |-> -1, polls |-> -1]]
                 /\ fg' = [fg EXCEPT !.pc = "ret", !.r = t, !.ret = 0]  \* line 317
       \/ /\ task' = task
          /\ fg' = [fg EXCEPT !.pc = "ret", !.r = -1, !.ret = -1]       \* 260-264
    /\ UNCHANGED <<daemon_should_run, daemon_running, call>>

\* ---- status, lines 266-273
StatusShould ==                                                          \* 268-269
    /\ fg.pc = "status_should"
    /\ fg' = [fg EXCEPT !.pc = "status_running"]
    /\ UNCHANGED <<daemon_should_run, daemon_running, task, call>>

StatusRunning ==                                                         \* 271-272
    /\ fg.pc = "status_running"
    /\ fg' = [fg EXCEPT !.pc = "ret", !.ret = 0]
    /\ UNCHANGED <<daemon_should_run, daemon_running, task, call>>

\* ---- stop, lines 274-282
\* the stop branch testing daemon_should_run instead of daemon_running
StopCheck_should ==
    /\ fg.pc = "stop_check"
    /\ fg' = IF ~daemon_should_run
             THEN [fg EXCEPT !.pc = "ret", !.ret = 1]
             ELSE [fg EXCEPT !.pc = "stop_set"]
    /\ UNCHANGED <<daemon_should_run, daemon_running, task, call>>

StopCheck ==                                                             \* 276-280
    /\ fg.pc = "stop_check"
    /\ fg' = IF ~daemon_running
             THEN [fg EXCEPT !.pc = "ret", !.ret = 1]
             ELSE [fg EXCEPT !.pc = "stop_set"]
    /\ UNCHANGED <<daemon_should_run, daemon_running, task, call>>

StopSet ==                                                               \* line 281
    /\ fg.pc = "stop_set"
    /\ daemon_should_run' = FALSE
    /\ fg' = [fg EXCEPT !.pc = "ret", !.ret = 0]
    /\ task' = [t \in TaskIds |->
                  IF task[t].pc \in {"open", "set_running", "loop", "process"}
                  THEN [task[t] EXCEPT !.polls = 0] ELSE task[t]]
    /\ UNCHANGED <<daemon_running, call>>

\* ---- mode, lines 283-298
ModeCheck ==                                                             \* line 287
    /\ fg.pc = "mode_check"
    /\ LET m == maintenance_allowed
       IN  fg' = [fg EXCEPT !.checks = Append(@, CheckRecord(m)),
                            !.pc = IF m THEN "mode_op" ELSE "ret",
                            !.ret = IF m THEN @ ELSE 1]
    /\ UNCHANGED <<daemon_should_run, daemon_running, task, call>>

ModeOp ==                                                                \* 289-297
    /\ fg.pc = "mode_op"
    /\ fg' = IF fg.arg \in {"at", "default"}
             THEN [fg EXCEPT !.pc = "ret", !.op = TRUE, !.ret = 0]
             ELSE [fg EXCEPT !.pc = "ret", !.ret = 1]
    /\ UNCHANGED <<daemon_should_run, daemon_running, task, call>>

\* ---- exec_all_AT, lines 86-109 (called from `at` and from
\* version_firmware_check)
\* where exec_all_AT returns to
ExecReturn == IF fg.cmd = "at" THEN "at_ret" ELSE "vfc_locate"

\* what the modem may answer to one AT command
Responses ==
    { <<"1", "0", "\t", "3", "\t", "1", ".", "8", ".", "8", "8", ".", "0", "\r", "\n">>,
      <<"1", "0", "\t", "3", "\t", "1", ".", "8", ".", "8", "7", ".", "0">>,
      <<"1", "0", "\t", "3", "\t", "1", ".", "9", ".", "0", ".", "0">>,
      <<"1", "0", "\t", "3", "\t", "1", ".", "8", ".", "x", ".", "0">>,
      <<"1", "0", "\t", "3", "\t", "1", ".", "8">>,
      <<"1", ".", "8", ".", "8", "8", ".", "0">>,
      <<>> }

\* exec_all_AT with the test of line 91 made but not obeyed: the device is
\* opened whatever maintenance_allowed answers
ExecCheck_late ==
    /\ fg.pc = "exec_check"
    /\ LET m == maintenance_allowed
       IN  fg' = [fg EXCEPT !.checks = Append(@, CheckRecord(m)),
                            !.pc = "exec_open"]
    /\ UNCHANGED <<daemon_should_run, daemon_running, task, call>>

ExecCheck ==                                                             \* line 91
    /\ fg.pc = "exec_check"
    /\ LET m == maintenance_allowed
       IN  fg' = [fg EXCEPT !.checks = Append(@, CheckRecord(m)),
                            !.pc = IF m THEN "exec_open" ELSE ExecReturn,
                            !.ok = IF m THEN @ ELSE FALSE]
    /\ UNCHANGED <<daemon_should_run, daemon_running, task, call>>

ExecOpen ==                                                              \* 93-94
    /\ fg.pc = "exec_open"
    /\ \E f \in OpenFailures :
         LET serial == open_serial(f, AllocFd, AnyErrno).d
         IN  fg' = IF fileno(serial) = -1
                   THEN [fg EXCEPT !.serial = serial, !.op = TRUE, !.ok = FALSE,
                                   !.pc = ExecReturn]
                   ELSE [fg EXCEPT !.serial = serial, !.op = TRUE, !.opened = TRUE,
                                   !.i = 0, !.pc = "exec_loop"]
    /\ UNCHANGED <<daemon_should_run, daemon_running, task, call>>

\* the loop with a raw descriptor in place of the unique_file: returning
\* true at line 108 leaves the device open
ExecLoop_leak ==
    /\ fg.pc = "exec_loop"
    /\ fg' = IF fg.i < fg.argc
             THEN [fg EXCEPT !.pc = "exec_cmd"]
             ELSE [fg EXCEPT !.ok = TRUE, !.pc = ExecReturn]
    /\ UNCHANGED <<daemon_should_run, daemon_running, task, call>>

ExecLoop ==                                                              \* 100, 108
    /\ fg.pc = "exec_loop"
    /\ fg' = IF fg.i < fg.argc
             THEN [fg EXCEPT !.pc = "exec_cmd"]
             ELSE [fg EXCEPT !.ok = TRUE, !.serial = close(@), !.pc = ExecReturn]
    /\ UNCHANGED <<daemon_should_run, daemon_running, task, call>>

\* the loop body with line 105 dropped: a failed command does not end the batch
ExecCmd_continue ==
    /\ fg.pc = "exec_cmd"
    /\ \/ fg' = [fg EXCEPT !.executed = Append(@, fg.i), !.results = Append(@, -1),
                           !.r = -1, !.i = @ + 1, !.pc = "exec_loop"]
       \/ \E resp \in Responses :
            fg' = [fg EXCEPT !.executed = Append(@, fg.i),
                             !.results = Append(@, Len(resp)),
                             !.r = Len(resp), !.buf = resp,
                             !.i = @ + 1, !.pc = "exec_loop"]
    /\ UNCHANGED <<daemon_should_run, daemon_running, task, call>>

\* lines 102-105 and the ++i of line 100: exec_AT_verbose fails (-1) or
\* leaves the response in buf and returns its length
ExecCmd ==
    /\ fg.pc = "exec_cmd"
    /\ \/ fg' = [fg EXCEPT !.executed = Append(@, fg.i), !.results = Append(@, -1),
                           !.r = -1, !.ok = FALSE, !.serial = close(@),
                           !.pc = ExecReturn]
       \/ \E resp \in Responses :
            fg' = [fg EXCEPT !.executed = Append(@, fg.i),
                             !.results = Append(@, Len(resp)),
                             !.r = Len(resp), !.buf = resp,
                             !.i = @ + 1, !.pc = "exec_loop"]
    /\ UNCHANGED <<daemon_should_run, daemon_running, task, call>>

\* ---- at, lines 299-304
AtCheck ==                                                               \* line 301
    /\ fg.pc = "at_check"
    /\ LET m == maintenance_allowed
       IN  fg' = [fg EXCEPT !.checks = Append(@, CheckRecord(m)),
                            !.pc = IF m THEN "exec_check" ELSE "at_ret",
                            !.ok = IF m THEN @ ELSE FALSE]
    /\ UNCHANGED <<daemon_should_run, daemon_running, task, call>>

AtRet ==                                                                 \* 303, 317
    /\ fg.pc = "at_ret"
    /\ fg' = [fg EXCEPT !.pc = "ret", !.ret = IF fg.ok THEN 0 ELSE 1]
    /\ UNCHANGED <<daemon_should_run, daemon_running, task, call>>

\* ---- firmware-version, lines 305-310, and version_firmware_check, 174-215
BL600_VERSION_FIRMWARE_MIN == <<1, 8, 88, 0>>                            \* line 177
prefix == <<"1", "0", "\t", "3", "\t">>                                  \* line 179

\* strstr(s, t): index of the first occurrence of t in s, 0 (NULL) if none
strstr(s, t) ==
    LET hits == {k \in 1 .. Len(s) - Len(t) + 1 : SubSeq(s, k, k + Len(t) - 1) = t}
    IN  IF hits = {} THEN 0 ELSE CHOOSE k \in hits : \A j \in hits : k <= j

FwCheck ==                                                               \* line 307
    /\ fg.pc = "fw_check"
    /\ LET m == maintenance_allowed
       IN  fg' = [fg EXCEPT !.checks = Append(@, CheckRecord(m)),
                            !.pc = IF m THEN "vfc_query" ELSE "fw_ret",
                            !.ok = IF m THEN @ ELSE FALSE]
    /\ UNCHANGED <<daemon_should_run, daemon_running, task, call>>

VfcQuery ==                                                              \* 177-186
    /\ fg.pc = "vfc_query"
    /\ fg' = [fg EXCEPT !.argc = 1, !.buf = <<>>, !.stages = Append(@, "query"),
                        !.pc = "exec_check"]
    /\ UNCHANGED <<daemon_should_run, daemon_running, task, call>>

VfcLocate ==                                                             \* 190-195
    /\ fg.pc = "vfc_locate"
    /\ fg' = IF fg.ok
             THEN LET p == strstr(fg.buf, prefix)
                  IN  [fg EXCEPT !.found = p, !.ok = (p # 0),
                                 !.stages = Append(@, "locate"), !.pc = "vfc_parse"]
             ELSE [fg EXCEPT !.pc = "vfc_parse"]
    /\ UNCHANGED <<daemon_should_run, daemon_running, task, call>>

VfcParse ==                                                              \* 197-205
    /\ fg.pc = "vfc_parse"
    /\ fg' = IF fg.ok
             THEN LET p == version_firmware_parse(
                               Drop(fg.buf, fg.found - 1 + Len(prefix)))
                  IN  [fg EXCEPT !.ok = p.ok, !.v4 = p.v,
                                 !.stages = Append(@, "parse"), !.pc = "vfc_compare"]
             ELSE [fg EXCEPT !.pc = "vfc_compare"]
    /\ UNCHANGED <<daemon_should_run, daemon_running, task, call>>

\* the comparison made whenever the parse stage ran, whether or not it
\* succeeded (the test of line 207 dropped); components never stored read as 0
VfcCompare_unguarded ==
    /\ fg.pc = "vfc_compare"
    /\ fg' = IF fg.found # 0
             THEN [fg EXCEPT !.ok = version_firmware_compare_le(
                                        BL600_VERSION_FIRMWARE_MIN,
                                        [k \in 1 .. 4 |->
                                           IF k <= Len(fg.v4) THEN fg.v4[k] ELSE 0]),
                             !.stages = Append(@, "compare"), !.pc = "fw_ret"]
             ELSE [fg EXCEPT !.pc = "fw_ret"]
    /\ UNCHANGED <<daemon_should_run, daemon_running, task, call>>

VfcCompare ==                                                            \* 207-214
    /\ fg.pc = "vfc_compare"
    /\ fg' = IF fg.ok
             THEN [fg EXCEPT !.ok = version_firmware_compare_le(
                                        BL600_VERSION_FIRMWARE_MIN, fg.v4),
                             !.stages = Append(@, "compare"), !.pc = "fw_ret"]
             ELSE [fg EXCEPT !.pc = "fw_ret"]
    /\ UNCHANGED <<daemon_should_run, daemon_running, task, call>>

FwRet ==                                                                 \* 309, 317
    /\ fg.pc = "fw_ret"
    /\ fg' = [fg EXCEPT !.pc = "ret", !.ret = IF fg.ok THEN 0 ELSE 1]
    /\ UNCHANGED <<daemon_should_run, daemon_running, task, call>>

\* ---- main() has returned: the shell is ready for the next command
Exit ==
    /\ fg.pc = "ret"
    /\ fg' = FgIdle
    /\ UNCHANGED <<daemon_should_run, daemon_running, task, call>>

\* ---- the background task, daemon(), lines 49-77
\* daemon() without the test of line 55: the task goes on after a failed open
TaskOpen_nocheck(t) ==
    /\ task[t].pc = "open"
    /\ \E f \in OpenFailures :
         LET d == open_serial(f, AllocFd, AnyErrno).d
         IN  task' = [task EXCEPT ![t] = [pc |-> "set_running", d |-> d,
                                          polls |-> task[t].polls]]
    /\ UNCHANGED <<daemon_should_run, daemon_running, fg, call>>

TaskOpen(t) ==                                                           \* 52-59
    /\ task[t].pc = "open"
    /\ \E f \in OpenFailures :
         LET d == open_serial(f, AllocFd, AnyErrno).d
         IN  task' = [task EXCEPT ![t] = IF fileno(d) = -1
                                         THEN NoTask
                                         ELSE [pc |-> "set_running", d |-> d,
                                               polls |-> task[t].polls]]
    /\ UNCHANGED <<daemon_should_run, daemon_running, fg, call>>

\* variant: the task enters its loop without advertising itself
TaskSetRunning_silent(t) ==
    /\ task[t].pc = "set_running"
    /\ task' = [task EXCEPT ![t].pc = "loop"]
    /\ UNCHANGED <<daemon_should_run, daemon_running, fg, call>>

TaskSetRunning(t) ==                                                     \* 61-68
    /\ task[t].pc = "set_running"
    /\ daemon_running' = TRUE
    /\ task' = [task EXCEPT ![t].pc = "loop"]
    /\ UNCHANGED <<daemon_should_run, fg, call>>

TaskLoop(t) ==                                                           \* 70, 73
    /\ task[t].pc = "loop"
    /\ task' = [task EXCEPT ![t].pc = IF daemon_should_run THEN "process"
                                                           ELSE "clear_running",
                            ![t].polls = IF ~daemon_should_run THEN -1
                                         ELSE IF @ = 0 THEN 1 ELSE @]
    /\ UNCHANGED <<daemon_should_run, daemon_running, fg, call>>

\* process_one_command returns (within its I/O timeout)
TaskProcess(t) ==                                                        \* line 71
    /\ task[t].pc = "process"
    /\ task' = [task EXCEPT ![t].pc = "loop"]
    /\ UNCHANGED <<daemon_should_run, daemon_running, fg, call>>

\* the end of daemon() also withdrawing the request to run
TaskClearRunning_both(t) ==
    /\ task[t].pc = "clear_running"
    /\ daemon_running' = FALSE
    /\ daemon_should_run' = FALSE
    /\ task' = [task EXCEPT ![t].pc = "return"]
    /\ UNCHANGED <<fg, call>>

TaskClearRunning(t) ==                                                   \* line 74
    /\ task[t].pc = "clear_running"
    /\ daemon_running' = FALSE
    /\ task' = [task EXCEPT ![t].pc = "return"]
    /\ UNCHANGED <<daemon_should_run, fg, call>>

\* return 0: the destructors of f, log and d run, d closes, the task ends
TaskReturn(t) ==                                                         \* line 76
    /\ task[t].pc = "return"
    /\ task' = [task EXCEPT ![t] = [pc |-> "none", d |-> close(task[t].d),
                                     polls |-> -1]]
    /\ UNCHANGED <<daemon_should_run, daemon_running, fg, call>>

TaskStep(t) ==
    \/ TaskOpen(t) \/ TaskSetRunning(t) \/ TaskLoop(t)
    \/ TaskProcess(t) \/ TaskClearRunning(t) \/ TaskReturn(t)

Foreground ==
    \/ Usage \/ Invoke
    \/ StartCheck \/ StartSet \/ StartSpawn
    \/ StatusShould \/ StatusRunning
    \/ StopCheck \/ StopSet
    \/ ModeCheck \/ ModeOp
    \/ AtCheck \/ AtRet
    \/ ExecCheck \/ ExecOpen \/ ExecLoop \/ ExecCmd
    \/ FwCheck \/ VfcQuery \/ VfcLocate \/ VfcParse \/ VfcCompare \/ FwRet
    \/ Exit

Next == Foreground \/ \E t \in TaskIds : TaskStep(t)

Spec == Init /\ [][Next]_vars

\* the scheduler lets every background task run: each task that can take a
\* step eventually takes one
FairSpec == Spec /\ \A t \in TaskIds : WF_vars(TaskStep(t))

\* the same program when the shell issues only start, status and stop (and
\* malformed command lines): the maintenance commands write neither flag and
\* no task, so the life cycle of the daemon is the same without them
LifecycleInvoke == Invoke /\ fg'.cmd \in {"start", "status", "stop"}

LifecycleNext ==
    \/ Usage \/ LifecycleInvoke
    \/ StartCheck \/ StartSet \/ StartSpawn
    \/ StatusShould \/ StatusRunning
    \/ StopCheck \/ StopSet
    \/ Exit
    \/ \E t \in TaskIds : TaskStep(t)

LifecycleSpec ==
    Init /\ [][LifecycleNext]_vars /\ \A t \in TaskIds : WF_vars(TaskStep(t))

\* ------------------------------------------------------------------ claims
\* v >= min in lexicographic order, major first
LexGE(v, min) ==
    \/ v = min
    \/ \E k \in 1 .. 4 : v[k] > min[k] /\ \A j \in 1 .. k - 1 : v[j] = min[j]

\* C6: version_firmware_compare_le(min, v) is true exactly when v >= min in
\* lexicographic order with major compared first
C6_CompareIsLexGE ==
    (call.fn = "version_firmware_compare_le" /\ call.done)
        => (call.ret <=> LexGE(call.ver, call.min))

\* a call where v is greater in an earlier component and lower in build
C6_Witness ==
    /\ call.fn = "version_firmware_compare_le" /\ call.done
    /\ call.ver[3] > call.min[3] /\ call.ver[4] < call.min[4]
    /\ call.ver[1] = call.min[1] /\ call.ver[2] = call.min[2]
    /\ call.ret = TRUE

\* the tokens of s between separators, empty tokens dropped
RECURSIVE SplitTokens(_, _, _)
SplitTokens(s, cur, acc) ==
    IF s = <<>> THEN (IF cur = <<>> THEN acc ELSE Append(acc, cur))
    ELSE IF s[1] \in {".", "\r", "\n"}
         THEN SplitTokens(Tail(s), <<>>, IF cur = <<>> THEN acc ELSE Append(acc, cur))
         ELSE SplitTokens(Tail(s), Append(cur, s[1]), acc)

DecimalDigits == {"0", "1", "2", "3", "4", "5", "6", "7", "8", "9"}

AllDigits(tok) == tok # <<>> /\ \A k \in 1 .. Len(tok) : tok[k] \in DecimalDigits

\* the number a string of decimal digits denotes
RECURSIVE DecimalValue(_)
DecimalValue(tok) ==
    IF tok = <<>> THEN 0
    ELSE 10 * DecimalValue(SubSeq(tok, 1, Len(tok) - 1)) + DigitValue(tok[Len(tok)])

\* C8: version_firmware_parse succeeds iff the text has at least four tokens
\* and each of the first four is entirely an unsigned integer; on success the
\* outputs are those four integers in order
C8_ParseIffFourIntegers ==
    (call.fn = "version_firmware_parse" /\ call.done) =>
        LET toks == SplitTokens(call.args, <<>>, <<>>)
            wellformed == Len(toks) >= 4 /\ \A k \in 1 .. 4 : AllDigits(toks[k])
        IN  /\ call.ret.ok <=> wellformed
            /\ call.ret.ok => call.ret.v = [k \in 1 .. 4 |-> DecimalValue(toks[k])]

\* C10: when open_serial fails at one of its three steps, errno on return is
\* the value the failing step set, whatever dbg_perror and close wrote, and
\* the returned handle is closed
C10_ErrnoPreserved ==
    (call.fn = "open_serial" /\ call.done /\ call.fail # "none")
        => (call.ret.errno = call.e.e_fail /\ fileno(call.ret.d) = -1)

\* a failed configuration step, with dbg_perror and close both overwriting errno
C10_Witness ==
    /\ call.fn = "open_serial" /\ call.done /\ call.fail = "tty_set_speed"
    /\ call.e.e_perror # call.e.e_fail /\ call.e.e_close # call.e.e_fail
    /\ call.ret.errno = call.e.e_fail /\ call.ret.d = -1

\* ---- claims about the daemon and main()
LiveTasks == {t \in TaskIds : task[t].pc # "none"}

HoldingTasks == {t \in TaskIds : fileno(task[t].d) # -1}

\* C1: a maintenance operation never holds an open serial handle at the same
\* time as a background daemon task holds one
C1_OneHandle == ~(fileno(fg.serial) # -1 /\ HoldingTasks # {})

\* C2: the number of spawned, not yet terminated background units never
\* exceeds one
C2_OneDaemon == Cardinality(LiveTasks) <= 1

\* a stop request has just been accepted
StopAccepted == fg.pc = "ret" /\ fg.cmd = "stop" /\ fg.ret = 0

\* C3: after an accepted request_stop a background unit that is in its loop
\* leaves it at its next polling point and terminates
C3_StopTerminates ==
    \A t \in TaskIds :
        (StopAccepted /\ task[t].pc \in {"loop", "process"}) ~> (task[t].pc = "none")

\* C4, as stated: maintenance_allowed answers "not daemon_running", and a
\* mode, at or firmware-version command performs its device operation iff
\* daemon_running was false at its (last) check
C4_OpIffAllowed ==
    (fg.pc = "ret" /\ fg.cmd \in {"mode", "at", "firmware-version"}) =>
        /\ \A k \in 1 .. Len(fg.checks) : fg.checks[k].allowed = ~fg.checks[k].running
        /\ fg.op <=> ~fg.checks[Len(fg.checks)].running

\* the number of maintenance_allowed checks on the way to the device
\* operation: one in main for mode; one in main and one in exec_all_AT for at
\* and firmware-version
ChecksNeeded == IF fg.cmd = "mode" THEN 1 ELSE 2

\* C4, amended: maintenance_allowed answers "not daemon_running" whatever
\* daemon_should_run is; at and firmware-version perform their device operation
\* iff daemon_running was false at both of their checks, and mode iff it was
\* false at its check and the argument is at or default
C4_OpIffAllChecksPass ==
    /\ \A k \in 1 .. Len(fg.checks) : fg.checks[k].allowed = ~fg.checks[k].running
    /\ (fg.pc = "ret" /\ fg.cmd \in {"mode", "at", "firmware-version"}) =>
          (fg.op <=> /\ Len(fg.checks) = ChecksNeeded
                     /\ \A k \in 1 .. Len(fg.checks) : ~fg.checks[k].running
                     /\ fg.cmd = "mode" => fg.arg \in {"at", "default"})

\* an at command allowed while daemon_should_run is true, and one refused at
\* the check of exec_all_AT after passing the check of main
C4_Witness ==
    /\ fg.pc = "ret" /\ fg.cmd = "at" /\ Len(fg.checks) = 2
    /\ fg.checks[1].should_run /\ fg.checks[1].allowed
    /\ ~fg.checks[2].allowed /\ ~fg.op

\* exec_all_AT has returned from a batch it started
BatchReturned == fg.pc \in {"at_ret", "vfc_locate"} /\ fg.opened

\* C5: the commands up to and including the first failing one were executed
\* once each in index order, none after it, and the batch fails; without a
\* failing command all N were executed in order and the batch succeeds
C5_FailFast ==
    BatchReturned =>
        LET fails == {k \in 1 .. Len(fg.results) : fg.results[k] = -1}
        IN  /\ Len(fg.results) = Len(fg.executed)
            /\ fg.executed = [k \in 1 .. Len(fg.executed) |-> k - 1]
            /\ IF fails # {}
               THEN /\ Len(fg.executed) = CHOOSE k \in fails : \A j \in fails : k <= j
                    /\ ~fg.ok
               ELSE Len(fg.executed) = fg.argc /\ fg.ok

\* a batch of two commands whose first command failed
C5_Witness ==
    /\ BatchReturned /\ fg.argc >= 2
    /\ fg.results = <<-1>> /\ fg.executed = <<0>> /\ ~fg.ok

\* the stages of version_firmware_check after the query, in order
StageOrder == <<"query", "locate", "parse", "compare">>

\* the text after the prefix in the response
VersionText == Drop(fg.buf, strstr(fg.buf, prefix) - 1 + Len(prefix))

\* C7: the stages run in order, each only if the previous one succeeded, and
\* the check returns true iff all stages succeed and the comparison is true
C7_StagesInOrder ==
    fg.cmd = "firmware-version" =>
        /\ fg.stages = SubSeq(StageOrder, 1, Len(fg.stages))
        /\ Len(fg.stages) >= 2 => (fg.opened /\ fg.results = <<Len(fg.buf)>>)
        /\ Len(fg.stages) >= 3 => strstr(fg.buf, prefix) # 0
        /\ Len(fg.stages) >= 4 => version_firmware_parse(VersionText).ok
        /\ fg.pc \in {"fw_ret", "ret"} /\ Len(fg.checks) = 2 =>
              (fg.ok <=> /\ Len(fg.stages) = 4
                         /\ LexGE(version_firmware_parse(VersionText).v,
                                  BL600_VERSION_FIRMWARE_MIN))

\* a response with the prefix and a malformed version: the check has returned
\* false without reaching the comparison
C7_Witness ==
    /\ fg.cmd = "firmware-version" /\ fg.pc = "fw_ret"
    /\ fg.stages = <<"query", "locate", "parse">>
    /\ strstr(fg.buf, prefix) # 0 /\ ~fg.ok

\* C9: when task_spawn_cmd fails, both flags have on return the values they
\* had when the start command was issued
C9_SpawnFailureNoChange ==
    (fg.pc = "ret" /\ fg.cmd = "start" /\ fg.r = -1)
        => <<daemon_should_run, daemon_running>> = fg.pre

\* the places of main() after exec_all_AT or version_firmware_check returned
\* (or was never entered)
AfterMaintenance ==
    {"at_ret", "vfc_locate", "vfc_parse", "vfc_compare", "fw_ret", "ret", "idle"}

\* C11: once a maintenance operation has returned, on success or on any
\* failure path, the foreground holds no open serial handle; a terminated
\* background task holds none
C11_NoHandleLeft ==
    /\ fg.pc \in AfterMaintenance => fileno(fg.serial) = -1
    /\ \A t \in TaskIds : task[t].pc = "none" => fileno(task[t].d) = -1

\* a batch that opened the device and ran all its commands has returned
C11_Witness ==
    /\ fg.pc = "at_ret" /\ fg.opened /\ fg.ok /\ Len(fg.executed) = fg.argc
    /\ fileno(fg.serial) = -1

\* C12: a stop is rejected with status 1 and both flags untouched exactly when
\* daemon_running is false at its test (also when daemon_should_run is true);
\* otherwise its next step clears daemon_should_run, leaves daemon_running as
\* it is and returns 0 without waiting for the background task
C12_StopRejectedIffNotRunning ==
    [][ /\ (fg.pc = "stop_check" /\ fg'.pc # "stop_check") =>
             /\ (fg'.pc = "ret" /\ fg'.ret = 1) <=> ~daemon_running
             /\ fg'.pc = "stop_set" <=> daemon_running
             /\ UNCHANGED <<daemon_should_run, daemon_running, task>>
        /\ (fg.pc = "stop_set" /\ fg'.pc # "stop_set") =>
             /\ fg'.pc = "ret" /\ fg'.ret = 0
             /\ daemon_should_run' = FALSE
             /\ UNCHANGED daemon_running
             /\ \A t \in TaskIds : task'[t].pc = task[t].pc /\ task'[t].d = task[t].d ]_vars

\* a stop issued in the Starting state has been rejected
C12_Witness ==
    /\ fg.pc = "ret" /\ fg.cmd = "stop" /\ fg.ret = 1
    /\ fg.pre = <<TRUE, FALSE>>
    /\ daemon_should_run /\ ~daemon_running

\* the foreground command was refused for the state of the daemon
PolicyRejected ==
    /\ fg.pc = "ret"
    /\ \/ fg.cmd \in {"start", "stop"} /\ fg.ret = 1
       \/ /\ fg.cmd \in {"mode", "at", "firmware-version"}
          /\ \E k \in 1 .. Len(fg.checks) : ~fg.checks[k].allowed

\* C13: a command rejected for policy has opened nothing, executed no AT
\* command, performed no device operation and spawned no task, and returns 1
C13_RejectBeforeIO ==
    PolicyRejected =>
        /\ fg.ret = 1
        /\ ~fg.op /\ ~fg.opened /\ fg.executed = <<>> /\ fg.results = <<>>
        /\ fileno(fg.serial) = -1
        /\ fg.r = 0

\* a firmware-version command refused by the check inside exec_all_AT after
\* passing the check of main
C13_Witness ==
    /\ PolicyRejected /\ fg.cmd = "firmware-version"
    /\ Len(fg.checks) = 2 /\ fg.checks[1].allowed /\ ~fg.checks[2].allowed
    /\ ~fg.op

\* the flag pair (requested_run, actually_running)
FlagState == <<daemon_should_run, daemon_running>>

\* Stopped -> Starting -> Running -> StopRequested -> Stopped
Cycle ==
    { << <<FALSE, FALSE>>, <<TRUE, FALSE>> >>,
      << <<TRUE, FALSE>>, <<TRUE, TRUE>> >>,
      << <<TRUE, TRUE>>, <<FALSE, TRUE>> >>,
      << <<FALSE, TRUE>>, <<FALSE, FALSE>> >> }

\* C14: every change of the flag pair is one of the four transitions of the
\* cycle
C14_CycleOnly == [][FlagState' # FlagState => <<FlagState, FlagState'>> \in Cycle]_vars

\* the tasks past line 67 that have not yet executed line 74
AdvertisedTasks == {t \in TaskIds : task[t].pc \in {"loop", "process", "clear_running"}}

\* C15: daemon_running is true only while a live background task that has
\* set it holds an open, configured handle; a task whose open_serial failed
\* never gets to set it
C15_RunningImpliesHandle ==
    /\ daemon_running => \E t \in AdvertisedTasks : fileno(task[t].d) # -1
    /\ \A t \in TaskIds :
         task[t].pc \in {"set_running", "loop", "process", "clear_running"}
             => fileno(task[t].d) # -1

\* a task has advertised itself as running and holds its handle
C15_Witness ==
    /\ daemon_running
    /\ \E t \in TaskIds : task[t].pc = "loop" /\ fileno(task[t].d) # -1

\* C16: a background task that has set daemon_running to false no longer
\* holds its serial handle
C16_ReleaseBeforeClear ==
    \A t \in TaskIds : task[t].pc = "return" => fileno(task[t].d) = -1

\* C17: daemon_should_run changes only at line 252 of an accepted start (to
\* true) and at line 281 of an accepted stop (to false); no step of the
\* foreground changes daemon_running
C17_ShouldRunForegroundOnly ==
    [][ /\ daemon_should_run' # daemon_should_run =>
             \/ fg.pc = "start_set" /\ fg'.pc = "start_spawn" /\ daemon_should_run'
             \/ fg.pc = "stop_set" /\ fg'.pc = "ret" /\ ~daemon_should_run'
        /\ daemon_should_run' # daemon_should_run =>
             \A t \in TaskIds : task'[t].pc = task[t].pc /\ task'[t].d = task[t].d
        /\ fg' # fg => daemon_running' = daemon_running
        /\ (fg.cmd \notin {"start", "stop"} /\ fg.pc # "idle")
             => daemon_should_run' = daemon_should_run ]_vars

\* an accepted start, issued in the Stopped state, has set daemon_should_run
C17_Witness ==
    /\ fg.pc = "start_spawn" /\ fg.pre = <<FALSE, FALSE>> /\ daemon_should_run

\* C19: whenever the flags say Starting (and no start is between line 252 and
\* its task_spawn_cmd), a spawned background task is alive
C19_StartingHasTask ==
    (daemon_should_run /\ ~daemon_running /\ fg.pc # "start_spawn")
        => LiveTasks # {}

\* C18: after an accepted stop a background task begins at most one further
\* process_one_command (reads daemon_should_run as true at most once more)
\* before it leaves its loop
C18_OneMoreCommand ==
    [][\A t \in TaskIds :
         (task[t].pc = "loop" /\ task[t].polls = 1) => task'[t].pc # "process"]_vars

\* C20: under weak fairness of the background task, a task that was spawned
\* by an accepted start and has opened the device (it stands before line 67)
\* leads to daemon_running being true
C20_StartLeadsToRunning ==
    \A t \in TaskIds : (task[t].pc = "set_running") ~> daemon_running

\* an accepted start (flags were false, false) whose task opened the device
\* and whose daemon_running has become true
C20_Witness ==
    /\ fg.cmd = "start" /\ fg.pc = "ret" /\ fg.ret = 0 /\ fg.pre = <<FALSE, FALSE>>
    /\ daemon_running
    /\ \E t \in TaskIds : task[t].pc = "loop" /\ fileno(task[t].d) # -1

====
